---- MODULE Spec2Model ----
(***************************************************************************)
(* A model of DolphinManager (src/main/dolphinManager.ts): the registry of *)
(* running Dolphin instances, the launchDolphin coroutine with its await   *)
(* points, the "close" handlers of the spawned processes, and the comm     *)
(* files on disk.                                                          *)
(*                                                                         *)
(* The manager runs on a single-threaded event loop: the code between two  *)
(* awaits runs atomically, and each action below is one such stretch.      *)
(* File operations (writeFile, unlink) take effect on disk when the thread *)
(* pool performs them, which is a step of its own.                         *)
(***************************************************************************)
EXTENDS Integers, Sequences, FiniteSets, TLC

\* Number of launchDolphin calls issued in a behaviour.
MaxCalls == 2

Calls == 1..MaxCalls

\* JavaScript null / undefined, and a defined value x.
Null == <<>>
Some(x) == <<x>>

UseTypes == {"playback", "spectate", "config", "netplay"}

\* Values of the dolphinType argument: undefined, or a DolphinType
\* (common/dolphin), the launch variant.
DolphinTypes == {Null, Some("netplay"), Some("playback")}

\* Values of the index argument: undefined (not passed), or a number.
Indices == {Null, Some(-1), Some(0), Some(1)}

\* Values of the replayComm argument: undefined, or a ReplayCommunication.
ReplayComms ==
    {Null,
     Some([mode |-> "normal", replay |-> "a.slp"]),
     Some([mode |-> "mirror", replay |-> "b.slp"])}

VARIABLES
    pc,               \* position of each launchDolphin call
    args,             \* arguments of each issued call
    error,            \* message of the error a call was rejected with, "" if none
    writePath,        \* path a call passed to writeFile, "" if it did not call it
    dolphinInstances, \* DolphinManager.dolphinInstances
    dolphin,          \* state of the child process spawned by each call
    files,            \* the temp directory: path -> Null (no file) or Some(contents)
    coercesData       \* whether fs.writeFile turns non-string data into a string

vars == <<pc, args, error, writePath, dolphinInstances, dolphin, files, coercesData>>

\* The state of DolphinInstallation (the second half of
\* src/renderer/containers/Header/index.tsx) and of the disk it installs to.
VARIABLES
    platform,         \* process.platform
    dolphinLaunchType,\* DolphinInstallation.dolphinLaunchType
    disk,             \* the paths that exist, each a sequence of path segments
    installedVersion, \* what the executable at the executable path prints for --version
    ipc,              \* position of the current validate / downloadAndInstall call
    cleanInstall,     \* the cleanInstall argument of the current call
    releaseInfo,      \* dolphinDownloadInfo of the current call, Null before it is known
    downloadedAsset,  \* the asset downloaded by the current call, Null if none
    log,              \* the messages the current call passed to log
    ierror,           \* the error the current call was rejected with, "" if none
    ncalls,           \* number of calls made so far
    invoked           \* the routines the current call has invoked so far

ivars == <<platform, dolphinLaunchType, disk, installedVersion, ipc, cleanInstall,
           releaseInfo, downloadedAsset, log, ierror, ncalls, invoked>>

\* Both components together.
allvars == <<vars, ivars>>

\* The arguments of a call that was not issued yet.
NoArgs ==
    [dolphinUseType |-> "playback", index |-> Null, replayComm |-> Null,
     dolphinType |-> Null]

\* src/main/dolphinManager.ts:52-61. The random suffix of call c's file is
\* modelled by c: each call draws its own 96-bit value.
generateCommunicationFilePath(dolphinUseType, c) ==
    "slippi-" \o dolphinUseType \o "-" \o ToString(c) \o ".txt"

\* Every path generateCommunicationFilePath can return in a behaviour.
Paths ==
    {generateCommunicationFilePath(u, c) : u \in {"playback", "spectate"}, c \in Calls}

\* JSON.stringify of a ReplayCommunication; JSON.stringify(undefined) is undefined.
JSONstringify(replayComm) ==
    IF replayComm = Null THEN Null
    ELSE Some("{\"mode\":\"" \o replayComm[1].mode \o "\",\"replay\":\""
              \o replayComm[1].replay \o "\"}")

\* The string fs.writeFile writes for its data argument when it coerces it
\* ('' + data).
DataString(data) == IF data = Null THEN "undefined" ELSE data[1]

\* The DolphinInstance object literals of launchDolphin.
DolphinInstance(dolphinUseType, index, c, commFilePath) ==
    [dolphinUseType |-> dolphinUseType, index |-> index, dolphin |-> c,
     commFilePath |-> commFilePath]

\* The initial value of DolphinManager.dolphinInstances.
InitialInstances ==
    [playback |-> Null, spectate |-> Null, netplay |-> Null,
     configNetplay |-> Null, configPlayback |-> Null]

\* No DolphinInstallation call is made: the installer's state is fixed.
InstallationUnused ==
    /\ platform = "linux"
    /\ dolphinLaunchType = "netplay"
    /\ disk = {}
    /\ installedVersion = ""
    /\ ipc = "idle"
    /\ cleanInstall = FALSE
    /\ releaseInfo = Null
    /\ downloadedAsset = Null
    /\ log = <<>>
    /\ ierror = ""
    /\ ncalls = 0
    /\ invoked = {}

Init ==
    /\ InstallationUnused
    /\ pc = [c \in Calls |-> "idle"]
    /\ args = [c \in Calls |-> NoArgs]
    /\ error = [c \in Calls |-> ""]
    /\ writePath = [c \in Calls |-> ""]
    /\ dolphinInstances = InitialInstances
    /\ dolphin = [c \in Calls |-> "none"]
    /\ files = [path \in Paths |-> Null]
    /\ coercesData \in BOOLEAN

Args(dolphinUseType, index, replayComm, dolphinType) ==
    [dolphinUseType |-> dolphinUseType, index |-> index,
     replayComm |-> replayComm, dolphinType |-> dolphinType]

\* The argument tuples the callers pass. Arguments a use type never reads
\* are left out (undefined); playback, and spectate of source 0, are launched
\* with every payload, the other spectate indices with the first one.
LaunchArgs ==
    {Args("playback", Null, r, Null) : r \in ReplayComms}
    \cup {Args("spectate", Some(0), r, Null) : r \in ReplayComms}
    \cup {Args("spectate", i, Some([mode |-> "normal", replay |-> "a.slp"]), Null) :
            i \in Indices}
    \cup {Args("netplay", Null, Null, Null)}
    \cup {Args("config", Null, Null, d) : d \in DolphinTypes}

\* launchDolphin is called: it runs up to `await electronSettings.get(...)`.
launchDolphin(c) ==
    /\ pc[c] = "idle"
    /\ \A b \in Calls : b < c => pc[b] # "idle"
    /\ \E a \in LaunchArgs : args' = [args EXCEPT ![c] = a]
    /\ pc' = [pc EXCEPT ![c] = "settings"]
    /\ UNCHANGED <<error, writePath, dolphinInstances, dolphin, files, coercesData, ivars>>

\* A call is rejected with the given error; nothing else changes.
Throw(c, message) ==
    /\ pc' = [pc EXCEPT ![c] = "failed"]
    /\ error' = [error EXCEPT ![c] = message]

\* `if (commFilePath) { await fs.writeFile(commFilePath, JSON.stringify(replayComm)); }`
\* (lines 116-118 and 152-154): nothing to do for an empty path; otherwise
\* writeFile is called, and either rejects data that is not a string or
\* starts the write and the call awaits it.
writeCommFile(c, commFilePath) ==
    IF commFilePath = "" THEN
        /\ pc' = [pc EXCEPT ![c] = "done"]
        /\ UNCHANGED <<error, writePath>>
    ELSE IF JSONstringify(args[c].replayComm) = Null /\ ~coercesData THEN
        /\ Throw(c, "TypeError")
        /\ UNCHANGED writePath
    ELSE
        /\ pc' = [pc EXCEPT ![c] = "writeFile"]
        /\ writePath' = [writePath EXCEPT ![c] = commFilePath]
        /\ UNCHANGED error

\* `if (!this.dolphinInstances.playback)` (line 100).
playbackSlotEmpty(instances) == instances.playback = Null

\* case "playback", after the settings were read (lines 99-118): an empty
\* slot sends the call to generateCommunicationFilePath and startDolphin,
\* an occupied one to the comm-file write.
playbackCase(c) ==
    /\ pc[c] = "settings"
    /\ args[c].dolphinUseType = "playback"
    /\ IF playbackSlotEmpty(dolphinInstances) THEN
           /\ pc' = [pc EXCEPT ![c] = "startDolphin"]
           /\ UNCHANGED <<error, writePath>>
       ELSE writeCommFile(c, dolphinInstances.playback[1].commFilePath)
    /\ UNCHANGED <<args, dolphinInstances, dolphin, files, coercesData, ivars>>

\* case "playback", after startDolphin returned the child (lines 104-118):
\* the slot is assigned, the close handler registered, the comm file written.
playbackSpawned(c) ==
    /\ pc[c] = "startDolphin"
    /\ args[c].dolphinUseType = "playback"
    /\ dolphin' = [dolphin EXCEPT ![c] = "running"]
    /\ dolphinInstances' =
         [dolphinInstances EXCEPT !.playback =
            Some(DolphinInstance("playback", Null, c,
                                 generateCommunicationFilePath("playback", c)))]
    /\ writeCommFile(c, dolphinInstances'.playback[1].commFilePath)
    /\ UNCHANGED <<args, files, coercesData, ivars>>

\* startDolphin failing only after it spawned the child.
startDolphinFailsAfterSpawn(c) ==
    /\ pc[c] = "startDolphin"
    /\ Throw(c, "ExecutableNotFound")
    /\ dolphin' = [dolphin EXCEPT ![c] = "running"]
    /\ UNCHANGED <<args, writePath, dolphinInstances, files, coercesData, ivars>>

\* startDolphin (lines 200-215) fails: findDolphinExecutable found no
\* executable; the error propagates out of launchDolphin.
startDolphinFails(c) ==
    /\ pc[c] = "startDolphin"
    /\ Throw(c, "ExecutableNotFound")
    /\ UNCHANGED <<args, writePath, dolphinInstances, dolphin, files, coercesData, ivars>>

\* fs.writeFile completes: the file at the path is created or truncated and
\* holds the data; the call returns.
writeFileDone(c) ==
    /\ pc[c] = "writeFile"
    /\ files' = [files EXCEPT ![writePath[c]] =
                    Some(DataString(JSONstringify(args[c].replayComm)))]
    /\ pc' = [pc EXCEPT ![c] = "done"]
    /\ UNCHANGED <<args, error, writePath, dolphinInstances, dolphin, coercesData, ivars>>

\* The "close" handlers of playback and spectate children start with
\* `await fs.unlink(commFilePath)` (lines 110-111, 145-146).
commClose(p) ==
    /\ dolphin[p] = "running"
    /\ args[p].dolphinUseType \in {"playback", "spectate"}
    /\ dolphin' = [dolphin EXCEPT ![p] = "unlinking"]
    /\ UNCHANGED <<pc, args, error, writePath, dolphinInstances, files, coercesData, ivars>>

\* fs.unlink completes: the file is removed, or unlink fails with ENOENT and
\* the handler's promise is rejected before it reaches the registry.
unlinkDone(p) ==
    /\ dolphin[p] = "unlinking"
    /\ LET commFilePath == generateCommunicationFilePath(args[p].dolphinUseType, p) IN
         IF files[commFilePath] # Null THEN
             /\ files' = [files EXCEPT ![commFilePath] = Null]
             /\ dolphin' = [dolphin EXCEPT ![p] = "unlinked"]
         ELSE
             /\ dolphin' = [dolphin EXCEPT ![p] = "closeFailed"]
             /\ UNCHANGED files
    /\ UNCHANGED <<pc, args, error, writePath, dolphinInstances, coercesData, ivars>>

\* The playback close handler resumes after unlink (line 112).
playbackClosed(p) ==
    /\ dolphin[p] = "unlinked"
    /\ args[p].dolphinUseType = "playback"
    /\ dolphinInstances' = [dolphinInstances EXCEPT !.playback = Null]
    /\ dolphin' = [dolphin EXCEPT ![p] = "closed"]
    /\ UNCHANGED <<pc, args, error, writePath, files, coercesData, ivars>>

\* `index < 0` (line 124); undefined < 0 is false.
indexInvalid(index) == index # Null /\ index[1] < 0

\* find that ignores the index and returns the first element of the array.
findFirst(spectate, index) ==
    IF spectate = Null \/ spectate = Some(<<>>) THEN Null
    ELSE Some(spectate[1][1])

\* lodash find(collection, ["index", index]) (line 127): the first element
\* whose index property equals index, undefined if there is none or the
\* collection is null.
find(spectate, index) ==
    IF spectate = Null THEN Null
    ELSE LET array == spectate[1]
             hits == {k \in 1..Len(array) : array[k].index = index}
         IN IF hits = {} THEN Null
            ELSE Some(array[CHOOSE k \in hits : \A h \in hits : k <= h])

\* lodash remove(array, (instance) => instance.index === index) (line 148):
\* every matching element is taken out of the array.
remove(array, index) ==
    SelectSeq(array, LAMBDA instance : instance.index # index)

\* case "spectate", after the settings were read (lines 123-154).
spectateCase(c) ==
    /\ pc[c] = "settings"
    /\ args[c].dolphinUseType = "spectate"
    /\ IF indexInvalid(args[c].index) THEN
           /\ Throw(c, "Must have a valid index")
           /\ UNCHANGED writePath
       ELSE LET dolphinInstance == find(dolphinInstances.spectate, args[c].index) IN
           IF dolphinInstance = Null THEN
               /\ pc' = [pc EXCEPT ![c] = "startDolphin"]
               /\ UNCHANGED <<error, writePath>>
           ELSE writeCommFile(c, dolphinInstance[1].commFilePath)
    /\ UNCHANGED <<args, dolphinInstances, dolphin, files, coercesData, ivars>>

\* case "spectate", after startDolphin returned the child (lines 131-154):
\* the instance is appended to the array (created on first use), the close
\* handler registered, the comm file written.
spectateSpawned(c) ==
    /\ pc[c] = "startDolphin"
    /\ args[c].dolphinUseType = "spectate"
    /\ LET dolphinInstance ==
             DolphinInstance("spectate", args[c].index, c,
                             generateCommunicationFilePath("spectate", c))
       IN /\ dolphinInstances' =
               [dolphinInstances EXCEPT !.spectate =
                  IF dolphinInstances.spectate = Null THEN Some(<<dolphinInstance>>)
                  ELSE Some(Append(dolphinInstances.spectate[1], dolphinInstance))]
          /\ writeCommFile(c, dolphinInstance.commFilePath)
    /\ dolphin' = [dolphin EXCEPT ![c] = "running"]
    /\ UNCHANGED <<args, files, coercesData, ivars>>

\* The spectate close handler resumes after unlink (lines 147-149).
spectateClosed(p) ==
    /\ dolphin[p] = "unlinked"
    /\ args[p].dolphinUseType = "spectate"
    /\ dolphinInstances' =
         IF dolphinInstances.spectate # Null THEN
             [dolphinInstances EXCEPT !.spectate =
                Some(remove(dolphinInstances.spectate[1], args[p].index))]
         ELSE dolphinInstances
    /\ dolphin' = [dolphin EXCEPT ![p] = "closed"]
    /\ UNCHANGED <<pc, args, error, writePath, files, coercesData, ivars>>

\* `if (!this.dolphinInstances.netplay)` (line 160).
netplaySlotEmpty(instances) == instances.netplay = Null

\* case "netplay", after the settings were read (lines 159-173).
netplayCase(c) ==
    /\ pc[c] = "settings"
    /\ args[c].dolphinUseType = "netplay"
    /\ pc' = [pc EXCEPT ![c] =
                IF netplaySlotEmpty(dolphinInstances) THEN "startDolphin" ELSE "done"]
    /\ UNCHANGED <<args, error, writePath, dolphinInstances, dolphin, files, coercesData, ivars>>

\* case "netplay", after startDolphin returned the child (lines 162-172).
netplaySpawned(c) ==
    /\ pc[c] = "startDolphin"
    /\ args[c].dolphinUseType = "netplay"
    /\ dolphin' = [dolphin EXCEPT ![c] = "running"]
    /\ dolphinInstances' =
         [dolphinInstances EXCEPT !.netplay = Some(DolphinInstance("netplay", Null, c, ""))]
    /\ pc' = [pc EXCEPT ![c] = "done"]
    /\ UNCHANGED <<args, error, writePath, files, coercesData, ivars>>

\* The netplay close handler (lines 167-169).
netplayClose(p) ==
    /\ dolphin[p] = "running"
    /\ args[p].dolphinUseType = "netplay"
    /\ dolphinInstances' = [dolphinInstances EXCEPT !.netplay = Null]
    /\ dolphin' = [dolphin EXCEPT ![p] = "closed"]
    /\ UNCHANGED <<pc, args, error, writePath, files, coercesData, ivars>>

\* configureType with a default: an undefined dolphin type configures the
\* playback build instead of throwing.
configureTypeDefaulting(dolphinType) ==
    IF dolphinType = Some("netplay") THEN "configNetplay" ELSE "configPlayback"

\* The slot a config launch uses (lines 176-183); "" when the dolphin type is
\* neither NETPLAY nor PLAYBACK and the call throws.
configureType(dolphinType) ==
    IF dolphinType = Some("netplay") THEN "configNetplay"
    ELSE IF dolphinType = Some("playback") THEN "configPlayback"
    ELSE ""

\* case "config", after the settings were read (lines 175-185).
configCase(c) ==
    /\ pc[c] = "settings"
    /\ args[c].dolphinUseType = "config"
    /\ IF configureType(args[c].dolphinType) = "" THEN
           Throw(c, "Must define a dolphin type for configuration")
       ELSE
           /\ pc' = [pc EXCEPT ![c] = "startDolphin"]
           /\ UNCHANGED error
    /\ UNCHANGED <<args, writePath, dolphinInstances, dolphin, files, coercesData, ivars>>

\* case "config", after startDolphin returned the child (lines 186-195).
configSpawned(c) ==
    /\ pc[c] = "startDolphin"
    /\ args[c].dolphinUseType = "config"
    /\ dolphin' = [dolphin EXCEPT ![c] = "running"]
    /\ dolphinInstances' =
         [dolphinInstances EXCEPT ![configureType(args[c].dolphinType)] =
            Some(DolphinInstance("config", Null, c, ""))]
    /\ pc' = [pc EXCEPT ![c] = "done"]
    /\ UNCHANGED <<args, error, writePath, files, coercesData, ivars>>

\* The config close handler (lines 191-193).
configClose(p) ==
    /\ dolphin[p] = "running"
    /\ args[p].dolphinUseType = "config"
    /\ dolphinInstances' =
         [dolphinInstances EXCEPT ![configureType(args[p].dolphinType)] = Null]
    /\ dolphin' = [dolphin EXCEPT ![p] = "closed"]
    /\ UNCHANGED <<pc, args, error, writePath, files, coercesData, ivars>>

Next ==
    \/ \E c \in Calls : launchDolphin(c)
    \/ \E c \in Calls : playbackCase(c)
    \/ \E c \in Calls : playbackSpawned(c)
    \/ \E c \in Calls : spectateCase(c)
    \/ \E c \in Calls : spectateSpawned(c)
    \/ \E c \in Calls : netplayCase(c)
    \/ \E c \in Calls : netplaySpawned(c)
    \/ \E c \in Calls : configCase(c)
    \/ \E c \in Calls : configSpawned(c)
    \/ \E c \in Calls : startDolphinFails(c)
    \/ \E c \in Calls : writeFileDone(c)
    \/ \E p \in Calls : commClose(p)
    \/ \E p \in Calls : unlinkDone(p)
    \/ \E p \in Calls : playbackClosed(p)
    \/ \E p \in Calls : spectateClosed(p)
    \/ \E p \in Calls : netplayClose(p)
    \/ \E p \in Calls : configClose(p)

Spec == Init /\ [][Next]_allvars

(***************************************************************************)
(* Vocabulary of the properties.                                           *)
(***************************************************************************)

SingletonSlots == {"playback", "netplay", "configNetplay", "configPlayback"}

\* The slot the process spawned by call p belongs to.
SlotOf(p) ==
    IF args[p].dolphinUseType = "config" THEN configureType(args[p].dolphinType)
    ELSE args[p].dolphinUseType

\* The comm file of the process spawned by call p ("" if it has none).
CommFileOf(p) ==
    IF args[p].dolphinUseType \in {"playback", "spectate"}
    THEN generateCommunicationFilePath(args[p].dolphinUseType, p)
    ELSE ""

Spawned(p) == dolphin[p] # "none"
Live(p) == dolphin[p] = "running"

\* The instances a registry holds, over all slots.
Registered(instances) ==
    {instances[s][1] : s \in {t \in SingletonSlots : instances[t] # Null}}
    \cup (IF instances.spectate = Null THEN {}
          ELSE {instances.spectate[1][k] : k \in 1..Len(instances.spectate[1])})

\* No launchDolphin call and no close handler is in the middle of its work.
Quiescent ==
    /\ \A c \in Calls : pc[c] \in {"idle", "done", "failed"}
    /\ \A p \in Calls : dolphin[p] \notin {"unlinking", "unlinked"}

(***************************************************************************)
(* Properties.                                                             *)
(***************************************************************************)

\* C1: as long as no playback process has exited, at most one playback
\* process was spawned, whatever the overlap of the launchDolphin("playback")
\* calls.
C1_OnePlaybackSpawn ==
    LET playbacks == {p \in Calls : args[p].dolphinUseType = "playback" /\ Spawned(p)}
    IN (\A p \in playbacks : Live(p)) => Cardinality(playbacks) <= 1

\* C2: a config launch that finds its slot (configPlayback or configNetplay)
\* holding a live process reuses it: it does not go on to spawn a process.
C2_ConfigLaunchReuses ==
    [][\A c \in Calls :
          (/\ args[c].dolphinUseType = "config"
           /\ pc[c] = "settings"
           /\ configureType(args[c].dolphinType) # ""
           /\ dolphinInstances[configureType(args[c].dolphinType)] # Null
           /\ Live(dolphinInstances[configureType(args[c].dolphinType)][1].dolphin))
          => pc'[c] # "startDolphin"]_vars

\* C3: no two instances of the spectate collection share an index, and at
\* most one live process exists per singleton slot.
C3_UniqueSlots ==
    /\ dolphinInstances.spectate # Null =>
         \A j, k \in 1..Len(dolphinInstances.spectate[1]) :
            j # k => dolphinInstances.spectate[1][j].index
                       # dolphinInstances.spectate[1][k].index
    /\ \A s \in SingletonSlots :
         Cardinality({p \in Calls : Live(p) /\ SlotOf(p) = s}) <= 1

\* C4: once a playback or spectate process has exited and nothing is
\* pending, the registry does not hold its instance and its comm file does
\* not exist.
C4_ExitCleansUp ==
    \A p \in Calls :
        (/\ Quiescent
         /\ args[p].dolphinUseType \in {"playback", "spectate"}
         /\ dolphin[p] \in {"closed", "closeFailed"})
        => /\ \A i \in Registered(dolphinInstances) : i.dolphin # p
           /\ files[CommFileOf(p)] = Null

\* C5: once the close handler of a process has deleted its comm file, no
\* instance of the registry references that path and no launchDolphin call
\* is writing a payload to it.
C5_NoDeletedCommFileInUse ==
    \A p \in Calls :
        dolphin[p] \in {"unlinked", "closed"}
        => /\ \A i \in Registered(dolphinInstances) : i.commFilePath # CommFileOf(p)
           /\ \A c \in Calls : ~(pc[c] = "writeFile" /\ writePath[c] = CommFileOf(p))

\* C6: an instance leaves the registry only in the step in which the close
\* handler of its own process finishes.
C6_RemovedOnlyByOwnExit ==
    [][\A i \in Registered(dolphinInstances) :
          i \notin Registered(dolphinInstances')
          => dolphin[i.dolphin] # "closed" /\ dolphin'[i.dolphin] = "closed"]_vars

\* C7: a spectate launch whose index is missing or negative fails and spawns
\* no process.
C7_InvalidIndexRejected ==
    \A c \in Calls :
        (/\ args[c].dolphinUseType = "spectate"
         /\ (args[c].index = Null \/ args[c].index[1] < 0)
         /\ pc[c] \notin {"idle", "settings"})
        => pc[c] = "failed" /\ ~Spawned(c)

\* C8: every step of a config launch without a dolphin type leaves the
\* registry, the processes and the files as they are, and the step after the
\* settings were read rejects the call with the "must define" error.
C8_ConfigWithoutTypeFails ==
    [][\A c \in Calls :
          (/\ args'[c].dolphinUseType = "config"
           /\ args'[c].dolphinType = Null
           /\ pc'[c] # pc[c])
          => /\ pc[c] = "settings" =>
                  /\ pc'[c] = "failed"
                  /\ error'[c] = "Must define a dolphin type for configuration"
             /\ pc'[c] \in {"settings", "failed"}
             /\ UNCHANGED <<dolphinInstances, dolphin, files>>]_vars

\* C8 witness: a config launch without a dolphin type was rejected while
\* another launch had populated the registry.
C8_Witness ==
    \E c \in Calls :
        /\ args[c].dolphinUseType = "config"
        /\ args[c].dolphinType = Null
        /\ pc[c] = "failed"
        /\ error[c] = "Must define a dolphin type for configuration"
        /\ Registered(dolphinInstances) # {}

\* C9: when all calls have completed and the calls that wrote the comm file
\* of a still-live instance all carried a payload, the file holds the JSON
\* of the payload of the most recently issued of them.
C9_LastWriteWins ==
    \A p \in Calls :
        LET writers == {c \in Calls : pc[c] = "done" /\ writePath[c] = CommFileOf(p)}
            last == CHOOSE c \in writers : \A b \in writers : b <= c
        IN (/\ Quiescent
            /\ Live(p)
            /\ CommFileOf(p) # ""
            /\ writers # {}
            /\ \A c \in writers : args[c].replayComm # Null)
           => files[CommFileOf(p)] = JSONstringify(args[last].replayComm)

\* C10: a launch without a payload that reuses a live playback or spectate
\* instance leaves the contents of the instance's comm file unchanged.
C10_NoPayloadNoWrite ==
    [][\A c \in Calls :
          (/\ args[c].replayComm = Null
           /\ ~Spawned(c)
           /\ pc[c] = "writeFile"
           /\ pc'[c] = "done"
           /\ \E p \in Calls : Live(p) /\ CommFileOf(p) = writePath[c])
          => files'[writePath[c]] = files[writePath[c]]]_vars

\* C11: a writeFile whose path was deleted by the close handler of its
\* process fails: the call is rejected and the file is not re-created.
C11_WriteToDeletedPathFails ==
    [][\A c \in Calls :
          (/\ pc[c] = "writeFile"
           /\ pc'[c] # pc[c]
           /\ files[writePath[c]] = Null
           /\ \E p \in Calls :
                dolphin[p] \in {"unlinked", "closed"} /\ CommFileOf(p) = writePath[c])
          => pc'[c] = "failed" /\ files'[writePath[c]] = Null]_vars

\* C12: the unlink of a close handler whose comm file is already absent
\* raises no error: the handler goes on to remove the instance.
C12_DestroyIdempotent ==
    [][\A p \in Calls :
          (/\ dolphin[p] = "unlinking"
           /\ dolphin'[p] # dolphin[p]
           /\ files[CommFileOf(p)] = Null)
          => dolphin'[p] = "unlinked"]_vars

\* C13: two spectate launches with different indices that got past the
\* spawn write to different comm files, each the comm file of a process
\* spawned for the launch's own index; and no two instances of the registry
\* share a comm file path.
C13_DistinctIndicesIndependent ==
    /\ \A c, d \in Calls :
          (/\ c # d
           /\ args[c].dolphinUseType = "spectate"
           /\ args[d].dolphinUseType = "spectate"
           /\ args[c].index # args[d].index
           /\ pc[c] \in {"writeFile", "done"}
           /\ pc[d] \in {"writeFile", "done"})
          => /\ writePath[c] # writePath[d]
             /\ \E p, q \in Calls :
                  /\ p # q
                  /\ Spawned(p) /\ CommFileOf(p) = writePath[c]
                  /\ args[p].index = args[c].index
                  /\ Spawned(q) /\ CommFileOf(q) = writePath[d]
                  /\ args[q].index = args[d].index
    /\ \A i, j \in Registered(dolphinInstances) :
          (i # j /\ i.commFilePath # "") => i.commFilePath # j.commFilePath

\* C13 witness: spectate launches of sources 0 and 1 have both returned and
\* the collection holds their two instances, both processes running.
C13_Witness ==
    \E c, d \in Calls :
        /\ args[c].dolphinUseType = "spectate" /\ args[c].index = Some(0)
        /\ args[d].dolphinUseType = "spectate" /\ args[d].index = Some(1)
        /\ pc[c] = "done" /\ pc[d] = "done"
        /\ Live(c) /\ Live(d)
        /\ dolphinInstances.spectate # Null
        /\ Len(dolphinInstances.spectate[1]) = 2

\* The slot of call d holds no instance (for spectate: none with d's index).
SlotEmptyFor(d) ==
    IF args[d].dolphinUseType = "spectate"
    THEN find(dolphinInstances.spectate, args[d].index) = Null
    ELSE dolphinInstances[SlotOf(d)] = Null

\* C20: a launch whose startDolphin fails is rejected with that error in a
\* step that leaves the registry, the processes and the files unchanged; the
\* call has no process, no instance and no comm file; and a later launch
\* that finds the slot empty goes on to startDolphin.
C20_FailedStartLeavesNoTrace ==
    [][/\ \A c \in Calls :
             (pc[c] = "startDolphin" /\ error'[c] = "ExecutableNotFound")
             => /\ pc'[c] = "failed"
                /\ UNCHANGED <<dolphinInstances, dolphin, files>>
       /\ \A c \in Calls :
             (pc'[c] = "failed" /\ error'[c] = "ExecutableNotFound")
             => /\ ~Spawned(c)'
                /\ \A i \in Registered(dolphinInstances') : i.dolphin # c
                /\ CommFileOf(c)' # "" => files'[CommFileOf(c)'] = Null
       /\ \A c, d \in Calls :
             (/\ pc[c] = "failed" /\ error[c] = "ExecutableNotFound"
              /\ args[d] = args[c]
              /\ pc[d] = "settings" /\ pc'[d] # pc[d]
              /\ SlotEmptyFor(d))
             => pc'[d] = "startDolphin"]_vars

\* C20 witness: a playback launch failed in startDolphin, the slot was left
\* empty, and a later playback launch spawned a process.
C20_Witness ==
    \E c, d \in Calls :
        /\ c < d
        /\ args[c].dolphinUseType = "playback"
        /\ pc[c] = "failed" /\ error[c] = "ExecutableNotFound"
        /\ args[d].dolphinUseType = "playback"
        /\ Live(d)
        /\ dolphinInstances.playback = Some(DolphinInstance("playback", Null, d,
                                               generateCommunicationFilePath("playback", d)))

(***************************************************************************)
(* DolphinInstallation: validate and downloadAndInstall.  Calls are made   *)
(* one after the other; each action is the code between two awaits.        *)
(***************************************************************************)

\* Number of validate / downloadAndInstall calls made in a behaviour.
MaxInstallCalls == 2

\* The values of process.platform the launcher is built for.
Platforms == {"win32", "darwin", "linux"}

DolphinLaunchTypes == {"netplay", "playback"}

\* Semantic versions, and their text.
SemVers ==
    {[major |-> 2, minor |-> 2, patch |-> 0],
     [major |-> 2, minor |-> 10, patch |-> 0],
     [major |-> 3, minor |-> 0, patch |-> 0]}

FormatVersion(v) ==
    ToString(v.major) \o "." \o ToString(v.minor) \o "." \o ToString(v.patch)

VersionStrings == {FormatVersion(v) : v \in SemVers}

\* semver's parse: the version a text denotes, Null if it denotes none.
ParseVersion(text) ==
    IF \E v \in SemVers : FormatVersion(v) = text
    THEN Some(CHOOSE v \in SemVers : FormatVersion(v) = text)
    ELSE Null

\* lt of semver that also holds for equal versions.
lte(a, b) ==
    IF ParseVersion(a) = Null \/ ParseVersion(b) = Null THEN Null
    ELSE LET x == ParseVersion(a)[1]
             y == ParseVersion(b)[1]
         IN Some(\/ x.major < y.major
                 \/ x.major = y.major /\ x.minor < y.minor
                 \/ x.major = y.major /\ x.minor = y.minor /\ x.patch <= y.patch)

\* lt(a, b) of semver: Null when it throws (a text is no version), else
\* whether a is the older version, fields compared as numbers.
lt(a, b) ==
    IF ParseVersion(a) = Null \/ ParseVersion(b) = Null THEN Null
    ELSE LET x == ParseVersion(a)[1]
             y == ParseVersion(b)[1]
         IN Some(\/ x.major < y.major
                 \/ x.major = y.major /\ x.minor < y.minor
                 \/ x.major = y.major /\ x.minor = y.minor /\ x.patch < y.patch)

\* What an executable prints for --version: a version, or nothing usable.
ProbeOutputs == VersionStrings \cup {""}

\* The sets of platforms a release has download urls for.
UrlSets == {Platforms, {"win32"}}

\* DolphinVersionResponse.
ReleaseInfos == [version : VersionStrings, downloadUrls : UrlSets]

\* DolphinInstallation.installationFolder (constructor argument).
installationFolder == <<"install">>

\* A process.platform compared with the wrong spelling.
isLinuxMisspelt == platform = "Linux"

\* `const isLinux = process.platform === "linux"` (line 160).
isLinux == platform = "linux"

\* DolphinInstallation.userFolder (lines 165-181).
userFolder ==
    CASE platform = "win32" -> installationFolder \o <<"User">>
      [] platform = "darwin" ->
            installationFolder \o <<"Slippi Dolphin.app", "Contents", "Resources", "User">>
      [] platform = "linux" ->
            <<"home", ".config",
              IF dolphinLaunchType = "netplay" THEN "SlippiOnline" ELSE "SlippiPlayback">>

\* The path findDolphinExecutable (@dolphin/util) looks at.
executablePath ==
    CASE platform = "win32" -> installationFolder \o <<"Slippi Dolphin.exe">>
      [] platform = "darwin" ->
            installationFolder \o <<"Slippi Dolphin.app", "Contents", "MacOS", "Slippi Dolphin">>
      [] platform = "linux" -> installationFolder \o <<"Slippi-x86_64.AppImage">>

\* The files the platform's installer puts into the destination folder.
AssetFiles == {executablePath, installationFolder \o <<"Sys", "GameSettings">>}

\* An installation made earlier: the executable, a file no asset contains,
\* and the user's configuration.
PriorInstall ==
    {executablePath, installationFolder \o <<"stale-marker.txt">>,
     userFolder \o <<"Config", "Dolphin.ini">>}

IsPrefix(folder, path) ==
    Len(folder) <= Len(path) /\ SubSeq(path, 1, Len(folder)) = folder

\* The paths inside a folder.
Inside(d, folder) == {path \in d : IsPrefix(folder, path)}

\* fs.remove(folder): the folder and everything in it is gone.
fsRemove(d, folder) == d \ Inside(d, folder)

\* No launchDolphin call is made: the manager's state is fixed.
ManagerUnused ==
    /\ pc = [c \in Calls |-> "idle"]
    /\ args = [c \in Calls |-> NoArgs]
    /\ error = [c \in Calls |-> ""]
    /\ writePath = [c \in Calls |-> ""]
    /\ dolphinInstances = InitialInstances
    /\ dolphin = [c \in Calls |-> "none"]
    /\ files = [path \in Paths |-> Null]
    /\ coercesData = FALSE

\* A DolphinInstallation was constructed; the disk holds no installation, a
\* prior one, or a prior one that lost its executable.
InstallInit ==
    /\ ManagerUnused
    /\ platform \in Platforms
    /\ dolphinLaunchType \in DolphinLaunchTypes
    /\ disk \in {{}, PriorInstall, PriorInstall \ {executablePath}}
    /\ installedVersion \in (IF executablePath \in disk THEN ProbeOutputs ELSE {""})
    /\ ipc = "idle"
    /\ cleanInstall = FALSE
    /\ releaseInfo = Null
    /\ downloadedAsset = Null
    /\ log = <<>>
    /\ ierror = ""
    /\ ncalls = 0
    /\ invoked = {}

\* A new call can be made: the previous one has returned.
CanCall == ipc \in {"idle", "done", "failed"} /\ ncalls < MaxInstallCalls

\* The current call is rejected with the given error.
Reject(message) ==
    /\ ipc' = "failed"
    /\ ierror' = message

\* hasDownloadUrl without the check.
hasDownloadUrlAlways(info) == TRUE

\* `downloadUrls[process.platform]` (line 264): whether the release has a
\* download url for this platform.
hasDownloadUrl(info) == platform \in info.downloadUrls

\* downloadAndInstall once dolphinDownloadInfo is known (lines 264-272): no
\* url for the platform throws, otherwise downloadLatestDolphin is awaited.
resolveAndDownload(info, routines) ==
    /\ releaseInfo' = Some(info)
    /\ IF ~hasDownloadUrl(info) THEN
           /\ Reject("Could not find latest Dolphin download url")
           /\ invoked' = routines
       ELSE
           /\ ipc' = "downloading"
           /\ invoked' = routines \cup {"downloadLatestDolphin"}
           /\ ierror' = ""

\* validate is called (lines 225-227): it awaits fetchLatestVersion.
validate ==
    /\ CanCall
    /\ ncalls' = ncalls + 1
    /\ ipc' = "v_fetch"
    /\ cleanInstall' = FALSE
    /\ releaseInfo' = Null
    /\ downloadedAsset' = Null
    /\ log' = <<>>
    /\ ierror' = ""
    /\ invoked' = {}
    /\ UNCHANGED <<platform, dolphinLaunchType, disk, installedVersion, vars>>

\* downloadAndInstall is called (lines 249-272), with or without a
\* releaseInfo and with cleanInstall on or off.
downloadAndInstall ==
    /\ CanCall
    /\ ncalls' = ncalls + 1
    /\ \E clean \in BOOLEAN : cleanInstall' = clean
    /\ downloadedAsset' = Null
    /\ log' = <<>>
    /\ \/ /\ releaseInfo' = Null
          /\ ipc' = "d_fetch"
          /\ ierror' = ""
          /\ invoked' = {"downloadAndInstall"}
       \/ \E info \in ReleaseInfos : resolveAndDownload(info, {"downloadAndInstall"})
    /\ UNCHANGED <<platform, dolphinLaunchType, disk, installedVersion, vars>>

\* fetchLatestVersion fails; validate and downloadAndInstall let the error
\* through (lines 227, 261).
fetchLatestVersionFails ==
    /\ ipc \in {"v_fetch", "d_fetch"}
    /\ Reject("NetworkError")
    /\ UNCHANGED <<platform, dolphinLaunchType, disk, installedVersion, cleanInstall,
                   releaseInfo, downloadedAsset, log, ncalls, invoked, vars>>

\* downloadAndInstall resumes with the fetched release (lines 261-272).
downloadFetched ==
    /\ ipc = "d_fetch"
    /\ \E info \in ReleaseInfos : resolveAndDownload(info, invoked)
    /\ UNCHANGED <<platform, dolphinLaunchType, disk, installedVersion, cleanInstall,
                   downloadedAsset, log, ncalls, vars>>

\* validate resumes with the fetched release and awaits
\* findDolphinExecutable (lines 227-230).
validateFetched ==
    /\ ipc = "v_fetch"
    /\ \E info \in ReleaseInfos : releaseInfo' = Some(info)
    /\ ipc' = "v_find"
    /\ UNCHANGED <<platform, dolphinLaunchType, disk, installedVersion, cleanInstall,
                   downloadedAsset, log, ierror, ncalls, invoked, vars>>

\* The catch block of validate and the call after it (lines 242-247).
catchAndDownload ==
    /\ log' = Append(log, "Could not find Dolphin installation. Downloading...")
    /\ resolveAndDownload(releaseInfo[1], invoked \cup {"downloadAndInstall"})

\* validate after findDolphinExecutable (lines 230-234, 242-247): found, it
\* goes on to _isOutOfDate, which awaits findDolphinExecutable again; not
\* found, the catch block sends it to downloadAndInstall.
validateFound ==
    /\ ipc = "v_find"
    /\ IF executablePath \in disk THEN
           /\ log' = log \o <<"Found existing Dolphin executable.",
                              "Checking if we need to update Dolphin">>
           /\ ipc' = "v_probe"
           /\ UNCHANGED <<releaseInfo, ierror, invoked>>
       ELSE catchAndDownload
    /\ UNCHANGED <<platform, dolphinLaunchType, disk, installedVersion, cleanInstall,
                   downloadedAsset, ncalls, vars>>

\* _isOutOfDate (lines 290-294): Null when it throws (no executable, or its
\* output is no version), else lt(installed, latest).
isOutOfDate(latestVersion) ==
    IF executablePath \notin disk THEN Null
    ELSE lt(installedVersion, latestVersion)

\* validate after _isOutOfDate, letting its errors through.
validateProbedNoCatch ==
    /\ ipc = "v_probe"
    /\ LET isOutdated == isOutOfDate(releaseInfo[1].version) IN
         IF isOutdated = Null THEN
             /\ Reject("TypeError")
             /\ UNCHANGED <<log, releaseInfo, invoked>>
         ELSE IF ~isOutdated[1] THEN
             /\ log' = Append(log, "No update found...")
             /\ ipc' = "done"
             /\ UNCHANGED <<releaseInfo, ierror, invoked>>
         ELSE
             /\ log' = Append(log, "Dolphin installation is outdated. Downloading latest...")
             /\ resolveAndDownload(releaseInfo[1], invoked \cup {"downloadAndInstall"})
    /\ UNCHANGED <<platform, dolphinLaunchType, disk, installedVersion, cleanInstall,
                   downloadedAsset, ncalls, vars>>

\* validate after _isOutOfDate (lines 234-247): up to date, it logs and
\* returns; outdated, or _isOutOfDate threw, it calls downloadAndInstall
\* with the release it fetched.
validateProbed ==
    /\ ipc = "v_probe"
    /\ LET isOutdated == isOutOfDate(releaseInfo[1].version) IN
         IF isOutdated = Null THEN catchAndDownload
         ELSE IF ~isOutdated[1] THEN
             /\ log' = Append(log, "No update found...")
             /\ ipc' = "done"
             /\ UNCHANGED <<releaseInfo, ierror, invoked>>
         ELSE
             /\ log' = Append(log, "Dolphin installation is outdated. Downloading latest...")
             /\ resolveAndDownload(releaseInfo[1], invoked \cup {"downloadAndInstall"})
    /\ UNCHANGED <<platform, dolphinLaunchType, disk, installedVersion, cleanInstall,
                   downloadedAsset, ncalls, vars>>

\* The switch of _installDolphin (lines 310-336): the platform's installer
\* is imported and awaited.
dispatchInstaller(routines) ==
    /\ ipc' = "installing"
    /\ invoked' = routines \cup {"installer"}

\* A failed download that is not noticed: the installer is dispatched.
downloadFailsUnnoticed ==
    /\ ipc = "downloading"
    /\ dispatchInstaller(invoked)
    /\ UNCHANGED <<platform, dolphinLaunchType, disk, installedVersion, cleanInstall,
                   releaseInfo, downloadedAsset, log, ierror, ncalls, vars>>

\* downloadLatestDolphin fails; the error goes to the caller (line 272).
downloadFails ==
    /\ ipc = "downloading"
    /\ Reject("NetworkError")
    /\ UNCHANGED <<platform, dolphinLaunchType, disk, installedVersion, cleanInstall,
                   releaseInfo, downloadedAsset, log, ncalls, invoked, vars>>

\* downloadAndInstall going on to _installDolphin without awaiting the
\* download.
downloadDoneEarly ==
    /\ ipc = "downloading"
    /\ log' = Append(log, "Installing Dolphin...")
    /\ IF cleanInstall THEN
           /\ ipc' = "uninstalling"
           /\ invoked' = invoked \cup {"_uninstallDolphin"}
       ELSE dispatchInstaller(invoked)
    /\ UNCHANGED <<platform, dolphinLaunchType, disk, installedVersion, cleanInstall,
                   releaseInfo, downloadedAsset, ierror, ncalls, vars>>

\* The download completed (lines 272-275, 303-308): _installDolphin starts,
\* with _uninstallDolphin's first fs.remove when cleanInstall is set.
downloadDone ==
    /\ ipc = "downloading"
    /\ downloadedAsset' = Some(releaseInfo[1].version)
    /\ log' = Append(log, "Installing Dolphin...")
    /\ IF cleanInstall THEN
           /\ ipc' = "uninstalling"
           /\ invoked' = invoked \cup {"_uninstallDolphin"}
       ELSE dispatchInstaller(invoked)
    /\ UNCHANGED <<platform, dolphinLaunchType, disk, installedVersion, cleanInstall,
                   releaseInfo, ierror, ncalls, vars>>

\* What the executable prints once the disk is d.
VersionOn(d) == IF executablePath \in d THEN installedVersion ELSE ""

\* _uninstallDolphin after `fs.remove(this.installationFolder)` (lines
\* 297-300): on linux the user folder is removed next.
uninstallRemovedInstallation ==
    /\ ipc = "uninstalling"
    /\ disk' = fsRemove(disk, installationFolder)
    /\ installedVersion' = VersionOn(disk')
    /\ IF isLinux THEN
           /\ ipc' = "uninstallingUser"
           /\ UNCHANGED invoked
       ELSE dispatchInstaller(invoked)
    /\ UNCHANGED <<platform, dolphinLaunchType, cleanInstall, releaseInfo,
                   downloadedAsset, log, ierror, ncalls, vars>>

\* _uninstallDolphin after `fs.remove(this.userFolder)` (lines 298-300).
uninstallRemovedUser ==
    /\ ipc = "uninstallingUser"
    /\ disk' = fsRemove(disk, userFolder)
    /\ installedVersion' = VersionOn(disk')
    /\ dispatchInstaller(invoked)
    /\ UNCHANGED <<platform, dolphinLaunchType, cleanInstall, releaseInfo,
                   downloadedAsset, log, ierror, ncalls, vars>>

\* The platform's installer finished (lines 310-330, 275): the asset's files
\* are in the destination folder and the executable is the release.
installerDone ==
    /\ ipc = "installing"
    /\ disk' = disk \cup AssetFiles
    /\ installedVersion' = releaseInfo[1].version
    /\ log' = Append(log, "Finished Dolphin install")
    /\ ipc' = "done"
    /\ UNCHANGED <<platform, dolphinLaunchType, cleanInstall, releaseInfo,
                   downloadedAsset, ierror, ncalls, invoked, vars>>

\* The platform's installer fails part-way: any part of the asset's files is
\* in place, and an executable that was written may be unusable.
installerFails ==
    /\ ipc = "installing"
    /\ \E placed \in SUBSET AssetFiles :
          /\ disk' = disk \cup placed
          /\ IF executablePath \in placed
             THEN installedVersion' \in {releaseInfo[1].version, ""}
             ELSE installedVersion' = installedVersion
    /\ Reject("IOError")
    /\ UNCHANGED <<platform, dolphinLaunchType, cleanInstall,
                   releaseInfo, downloadedAsset, log, ncalls, invoked, vars>>

InstallNext ==
    \/ validate
    \/ downloadAndInstall
    \/ fetchLatestVersionFails
    \/ downloadFetched
    \/ validateFetched
    \/ validateFound
    \/ validateProbed
    \/ downloadFails
    \/ downloadDone
    \/ uninstallRemovedInstallation
    \/ uninstallRemovedUser
    \/ installerDone
    \/ installerFails

SpecInstall == InstallInit /\ [][InstallNext]_allvars

(***************************************************************************)
(* Properties of DolphinInstallation.                                      *)
(***************************************************************************)

\* The pairs (a, b) of version texts with a older than b.
Older == {<<"2.2.0", "2.10.0">>, <<"2.2.0", "3.0.0">>, <<"2.10.0", "3.0.0">>}

UrlError == "Could not find latest Dolphin download url"

\* C14: when validate has found an executable that reports a version, an
\* installed version not older than the latest makes it log "No update
\* found..." and return with nothing invoked and the disk untouched; an
\* older one makes it invoke downloadAndInstall.
C14_ValidateComparesVersions ==
    [][(/\ ipc = "v_probe"
        /\ ipc' # ipc
        /\ executablePath \in disk
        /\ installedVersion \in VersionStrings)
       => IF <<installedVersion, releaseInfo[1].version>> \in Older
          THEN "downloadAndInstall" \in invoked'
          ELSE /\ ipc' = "done"
               /\ invoked' = {}
               /\ log'[Len(log')] = "No update found..."
               /\ disk' = disk]_allvars

\* C14 witness: validate returned without an update for an installed 2.10.0
\* and a latest 2.2.0.
C14_Witness ==
    /\ ipc = "done"
    /\ invoked = {}
    /\ installedVersion = "2.10.0"
    /\ releaseInfo = Some([version |-> "2.2.0", downloadUrls |-> Platforms])
    /\ log # <<>>
    /\ log[Len(log)] = "No update found..."

\* C15: in validate, a missing executable or a version that cannot be read
\* sends the call to downloadAndInstall with the release already fetched;
\* the call fails at that step only for the missing download url.
C15_ProbeFailureMeansInstall ==
    [][(/\ ipc' # ipc
        /\ \/ ipc = "v_find" /\ executablePath \notin disk
           \/ ipc = "v_probe" /\ (executablePath \notin disk
                                  \/ installedVersion \notin VersionStrings))
       => /\ "downloadAndInstall" \in invoked'
          /\ releaseInfo' = releaseInfo
          /\ ipc' \in {"downloading", "failed"}
          /\ ipc' = "failed" => ierror' = UrlError]_allvars

\* C15 witness: validate found an executable whose version output is
\* unusable and is downloading the fetched release.
C15_Witness ==
    /\ ipc = "downloading"
    /\ executablePath \in disk
    /\ installedVersion = ""
    /\ Len(log) = 3
    /\ log[3] = "Could not find Dolphin installation. Downloading..."

\* C16: when downloadAndInstall has a release without a download url for
\* the platform, it has failed with the url error, has invoked neither the
\* download nor the uninstall nor the installer, and the failing step left
\* the disk as it was.
C16_NoUrlFailsFirst ==
    [][(/\ releaseInfo' # Null
        /\ "downloadAndInstall" \in invoked'
        /\ platform \notin releaseInfo'[1].downloadUrls)
       => /\ ipc' = "failed"
          /\ ierror' = UrlError
          /\ invoked' = {"downloadAndInstall"}
          /\ disk' = disk
          /\ installedVersion' = installedVersion]_allvars

\* C16 witness: a downloadAndInstall with cleanInstall failed for the
\* missing url and the prior installation is intact.
C16_Witness ==
    /\ ipc = "failed"
    /\ ierror = UrlError
    /\ cleanInstall
    /\ disk = PriorInstall

\* C17: after a successful downloadAndInstall with cleanInstall the
\* installation folder holds exactly the asset's files, and the prior user
\* configuration is gone, on linux too.
C17_CleanInstallLeavesOnlyAsset ==
    (ipc = "done" /\ cleanInstall /\ "installer" \in invoked)
    => /\ Inside(disk, installationFolder) = AssetFiles
       /\ installationFolder \o <<"stale-marker.txt">> \notin disk
       /\ Inside(disk, userFolder) \subseteq AssetFiles
       /\ userFolder \o <<"Config", "Dolphin.ini">> \notin disk

\* C17 witness: a clean install finished on linux.
C17_Witness ==
    /\ ipc = "done"
    /\ cleanInstall
    /\ platform = "linux"
    /\ "_uninstallDolphin" \in invoked
    /\ "installer" \in invoked
    /\ disk = AssetFiles

\* The state of the installation in the terms of the state machine.
Phase ==
    IF ipc = "downloading" THEN "DOWNLOADING"
    ELSE IF ipc \in {"uninstalling", "uninstallingUser", "installing"} THEN "INSTALLING"
    ELSE IF executablePath \in disk THEN "INSTALLED"
    ELSE "ABSENT"

Transitions ==
    {<<"ABSENT", "DOWNLOADING">>, <<"DOWNLOADING", "INSTALLING">>,
     <<"INSTALLING", "INSTALLED">>, <<"INSTALLED", "DOWNLOADING">>}

\* The installer is dispatched only after the download of the call
\* completed, and the executable appears only by the installer.
InstallerAfterDownload ==
    /\ ("installer" \in invoked' /\ "installer" \notin invoked)
       => /\ downloadedAsset' # Null
          /\ "downloadLatestDolphin" \in invoked
          /\ ipc \in {"downloading", "uninstalling", "uninstallingUser"}
    /\ (executablePath \notin disk /\ executablePath \in disk') => ipc = "installing"

\* C18 as stated: the installation changes state only along the listed
\* transitions, the installer is dispatched only after the download of the
\* call completed, and INSTALLED is reached only from INSTALLING.
C18_OnlyListedTransitions ==
    [][/\ Phase' # Phase => <<Phase, Phase'>> \in Transitions
       /\ InstallerAfterDownload]_allvars

\* C18 amended: a step that does not reject the call changes the state only
\* along the listed transitions; a step that rejects it takes DOWNLOADING or
\* INSTALLING back to ABSENT or INSTALLED; the installer is dispatched only
\* after the download of the call completed.
C18_TransitionsUnlessRejected ==
    [][/\ (Phase' # Phase /\ ipc' # "failed") => <<Phase, Phase'>> \in Transitions
       /\ (Phase' # Phase /\ ipc' = "failed")
          => /\ Phase \in {"DOWNLOADING", "INSTALLING"}
             /\ Phase' \in {"ABSENT", "INSTALLED"}
       /\ InstallerAfterDownload]_allvars

\* C18 witness: an update went through DOWNLOADING and INSTALLING and the
\* installer returned.
C18_Witness ==
    /\ ipc = "done"
    /\ Phase = "INSTALLED"
    /\ downloadedAsset # Null
    /\ "installer" \in invoked
    /\ installedVersion = releaseInfo[1].version

\* C19: the disk changes only after the download of the call completed, and
\* a call rejected for a failed fetch or download has not uninstalled
\* anything and leaves the disk as it was.
C19_RemovalOnlyAfterDownload ==
    [][/\ disk' # disk
          => /\ downloadedAsset # Null
             /\ "downloadLatestDolphin" \in invoked
             /\ ipc \in {"uninstalling", "uninstallingUser", "installing"}
       /\ (ipc' = "failed" /\ ierror' = "NetworkError")
          => /\ disk' = disk
             /\ "_uninstallDolphin" \notin invoked']_allvars

\* C19 witness: the download of a downloadAndInstall with cleanInstall
\* failed and the prior installation is intact.
C19_Witness ==
    /\ ipc = "failed"
    /\ ierror = "NetworkError"
    /\ cleanInstall
    /\ "downloadLatestDolphin" \in invoked
    /\ disk = PriorInstall
====
